---- MODULE Spec2Model ----
\* A model of pdm-download's concurrent fetch-and-verify pipeline:
\* src/src/pdm_download/command.py, _download_package and _download_packages.
\* The main thread creates the destination, submits one task per package to a
\* ThreadPoolExecutor and attaches progress_callback to every future; worker
\* threads run _download_package and, when a future completes, its callbacks.
EXTENDS Integers, Sequences, FiniteSets, TLC

\* ---------------------------------------------------------------- bounds
MaxPackages == 2      \* longest package list explored
MaxWorkers == 2       \* largest worker-pool bound explored
MaxChunks == 2        \* longest response body, in chunks

\* ------------------------------------------------ hashlib (toy digests)
\* hashlib's registry: the names hashlib.new accepts.
Registry == {"sha256", "md5"}

HashNames == Registry \cup {"nohash"}

\* A digest is two hex digits wide.
HashMod == 256

HexDigits == <<"0", "1", "2", "3", "4", "5", "6", "7",
               "8", "9", "a", "b", "c", "d", "e", "f">>

\* hashlib.new(name): the initial state of a hasher of a registered algorithm.
NewHash(name) == IF name = "sha256" THEN 7 ELSE 11

\* hasher.update(chunk): a rolling digest, order sensitive.
HashUpdate(name, h, c) ==
    IF name = "sha256" THEN (h * 5 + c + 3) % HashMod
    ELSE (h * 3 + c + 1) % HashMod

\* hasher.hexdigest(): lower-case hex.
HexDigest(h) == <<HexDigits[(h \div 16) + 1], HexDigits[(h % 16) + 1]>>

RECURSIVE HashOf(_, _, _)
\* The state of a hasher of algorithm name, started at h, after all of body.
HashOf(name, h, body) ==
    IF body = <<>> THEN h
    ELSE HashOf(name, HashUpdate(name, h, Head(body)), Tail(body))

\* The hex digest hashlib computes over a whole body.
DigestOf(name, body) == HexDigest(HashOf(name, NewHash(name), body))

\* ------------------------------------------------------------ the inputs
ChunkValues == {1, 2}

Bodies == UNION {[1..n -> ChunkValues] : n \in 0..MaxChunks}

\* A FileHash entry of the lock file together with what the server and the
\* file system will do for it:
\*   hash_name, hash_value  package["hash"].split(":")
\*   file                   package["file"], the name under dest
\*   connect                the GET reaches the server
\*   status                 the response's status code
\*   body                   the response body, in chunks
\*   readFault              k > 0: reading chunk k raises a transport error
\*   openOk                 the destination file can be opened for writing
Entry(name, value, c, s, b, rf, o) ==
    [hash_name |-> name, hash_value |-> value, connect |-> c, status |-> s,
     body |-> b, readFault |-> rf, openOk |-> o]

\* A URL, as far as the code looks into it: Link(url).filename is the last
\* segment of its path.
Url(f) == [host |-> "files", filename |-> f]

LinkFilename(url) == url.filename

\* The entry e as _get_file_hashes builds it for the file f of the index:
\* with "url", "file" and "hash".
Package(e, f) ==
    [url |-> Url(f), file |-> f, hash_name |-> e.hash_name,
     hash_value |-> e.hash_value, connect |-> e.connect, status |-> e.status,
     body |-> e.body, readFault |-> e.readFault, openOk |-> e.openOk]

\* The entry e as a static_urls lock file records it: "url" and "hash", no
\* "file".
StaticPackage(e, f) ==
    [url |-> Url(f), hash_name |-> e.hash_name,
     hash_value |-> e.hash_value, connect |-> e.connect, status |-> e.status,
     body |-> e.body, readFault |-> e.readFault, openOk |-> e.openOk]

HasFileKey(p) == "file" \in DOMAIN p

\* Variant: a record without "file" is written under a fixed name.
TargetFileFixed(p) == IF HasFileKey(p) THEN p.file ELSE 1

\* Line 59: package.get("file", Link(package["url"]).filename).
TargetFile(p) == IF HasFileKey(p) THEN p.file ELSE LinkFilename(p.url)

\* Lines 66-69: the message is formatted with package['file'], a KeyError
\* for a record that has no "file".
MismatchError(p) == IF HasFileKey(p) THEN "RuntimeError" ELSE "KeyError"

GoodEntry(name, b) == Entry(name, DigestOf(name, b), TRUE, 200, b, 0, TRUE)

\* The entries the pool is exercised with: a download that verifies, one
\* that fails before anything is opened and one that fails with the stream
\* and the file open.
PoolCatalog ==
    { GoodEntry("sha256", <<1>>),
      Entry("nohash", <<"0", "0">>, TRUE, 200, <<1>>, 0, TRUE),
      Entry("sha256", DigestOf("sha256", <<1>>), TRUE, 200, <<1>>, 1, TRUE) }

\* A digest that is not the digest of body.
WrongDigest(name, body) ==
    HexDigest((HashOf(name, NewHash(name), body) + 1) % HashMod)

Statuses == {200, 404}

\* finder.session is an httpx.Client (it has .stream) or, with an older pdm,
\* a requests.Session (_stream_compat, _iter_content_compat).
Sessions == {"httpx", "requests"}

\* Every entry within the bounds, for runs of a single package.
FullCatalog ==
    { Entry(x.n, IF x.good THEN DigestOf(x.n, x.b) ELSE WrongDigest(x.n, x.b),
            x.c, x.s, x.b, x.rf, x.o) :
        x \in [n : HashNames, good : BOOLEAN, c : BOOLEAN, s : Statuses,
               b : Bodies, rf : 0..MaxChunks, o : BOOLEAN] }

\* str.upper() and str.lower() on one hex digit.
UpperDigit(ch) ==
    CASE ch = "a" -> "A" [] ch = "b" -> "B" [] ch = "c" -> "C"
      [] ch = "d" -> "D" [] ch = "e" -> "E" [] ch = "f" -> "F"
      [] OTHER -> ch

LowerDigit(ch) ==
    CASE ch = "A" -> "a" [] ch = "B" -> "b" [] ch = "C" -> "c"
      [] ch = "D" -> "d" [] ch = "E" -> "e" [] ch = "F" -> "f"
      [] OTHER -> ch

ToUpper(d) == [k \in 1..Len(d) |-> UpperDigit(d[k])]
ToLower(d) == [k \in 1..Len(d) |-> LowerDigit(d[k])]

\* Lock entries that declare the right digest in upper-case hex, where that
\* is another string than hashlib's lower-case hexdigest.
CaseCatalog ==
    { Entry(n, ToUpper(DigestOf(n, b)), TRUE, 200, b, 0, TRUE) :
        <<n, b>> \in {x \in Registry \X Bodies :
                         ToUpper(DigestOf(x[1], x[2])) # DigestOf(x[1], x[2])} }

\* What the server may answer: success, a 3xx that is not followed (300
\* Multiple Choices carries a body and no Location), a client error.
AllStatuses == Statuses \cup {300}

\* Entries that differ in the answer's status only, for either kind of
\* session, with a right or a wrong declared digest.
SessionCatalog ==
    { Entry("sha256", IF x.good THEN DigestOf("sha256", x.b)
                      ELSE WrongDigest("sha256", x.b),
            TRUE, x.s, x.b, 0, TRUE) :
        x \in [good : BOOLEAN, s : AllStatuses, b : Bodies] }

Failed(exc) == exc # "None"

\* ----------------------------------------------------------- the state
\* Pool threads are interchangeable, so a thread is known by what it does: a
\* thread running a task or a callback is that task's position, and the
\* threads between tasks are counted.
VARIABLES
    packages,       \* Sequence[FileHash] with the environment of each entry
    max_workers,    \* ThreadPoolExecutor()._max_workers, from the host
    destExists,     \* dest.exists()
    mkdirOk,        \* whether dest.mkdir(parents=True) can succeed
    session,        \* the kind of finder.session: httpx | requests
    run,            \* which call of _download_packages this is: 1 or 2
    firstFiles,     \* files as the first call left them
    files,          \* file name -> [exists, data] under dest
    mainpc,         \* the main thread's position in _download_packages
    i,              \* number of packages submitted by the for loop
    total,          \* the progress task's total
    completed,      \* the progress task's completed
    success_count,  \* the nonlocal counter
    errLines,       \* package -> error lines echoed to stderr for it
    summary,        \* the summary lines echoed, each by its count
    pc,             \* task -> position of the thread working on it
    cbBy,           \* task -> the thread that runs its callback: main | worker
    tmp,            \* task -> success_count as loaded by `+= 1`
    fstate,         \* future -> NONE | PENDING | RUNNING | FINISHED
    fexc,           \* future -> its exception, "None" for a result
    fcb,            \* future -> progress_callback is in _done_callbacks
    queue,          \* the executor's work queue
    numThreads,     \* len(executor._threads)
    nGet,           \* pool threads about to poll the queue
    nBlocked,       \* pool threads blocked in work_queue.get
    nDead,          \* pool threads that have exited
    idleSem,        \* executor._idle_semaphore
    shutdown,       \* executor._shutdown
    hasher,         \* task -> digest state
    stream,         \* task -> none | open | closed
    fp,             \* task -> none | open | closed
    nread,          \* task -> chunks read from the response
    nhashed,        \* task -> chunks fed to the hasher
    raising,        \* task -> the exception being raised, "None" if none
    runs,           \* package -> times _download_package was started
    cbCalls         \* package -> times progress_callback was entered

\* The state of _get_file_hashes, which builds the package list from the
\* lock file's candidates and the index.
VARIABLES
    candidates,     \* the locked candidates, each with what the finder yields
    rpc,            \* position in _get_file_hashes: for | match | warn | return
    ci,             \* index of the candidate of the outer for loop
    can_hashes,     \* the copy of candidate.hashes being worked off
    mi,             \* matches of the finder consumed by the inner for loop
    wi,             \* items of can_hashes gone through by the warning loop
    hashes,         \* the list returned
    warnings        \* file names of the warnings echoed, in order

resolveVars == <<candidates, rpc, ci, can_hashes, mi, wi, hashes, warnings>>

vars == <<packages, max_workers, destExists, mkdirOk, session, run,
          firstFiles, files, mainpc, i, resolveVars,
          total, completed, success_count, errLines, summary, pc, cbBy, tmp,
          fstate, fexc, fcb, queue, numThreads, nGet, nBlocked, nDead,
          idleSem, shutdown, hasher, stream, fp, nread, nhashed, raising,
          runs, cbCalls>>

\* What no step of a call of _download_packages changes.
envVars == <<packages, max_workers, mkdirOk, session, run, firstFiles,
             resolveVars>>
taskVars == <<hasher, stream, fp, nread, nhashed, raising, runs, files>>
futVars == <<fstate, fexc, fcb>>
poolVars == <<queue, numThreads, nGet, nBlocked, nDead, idleSem, shutdown>>
tallyVars == <<total, completed, success_count, errLines, summary, cbCalls>>
cbVars == <<cbBy, tmp>>

Absent == [exists |-> FALSE, data |-> <<>>]

\* Room for the longest list explored; the end-to-end scenario has three
\* packages.
Slots == 1..(IF MaxPackages < 3 THEN 3 ELSE MaxPackages)
N == Len(packages)

\* -------------------------------------------------------------- Init
\* Lists of n packages drawn from catalog, with unique file names (the k-th
\* package is written to file k).
PackageLists(catalog, n) ==
    {[k \in 1..n |-> Package(es[k], k)] : es \in [1..n -> catalog]}

InitEnv(catalog, maxN) ==
    /\ packages \in UNION {PackageLists(catalog, n) : n \in 0..maxN}
    /\ max_workers \in 1..MaxWorkers
    /\ destExists \in BOOLEAN
    /\ mkdirOk \in (IF destExists THEN {TRUE} ELSE BOOLEAN)

\* _get_file_hashes before its first step, with nothing to resolve yet.
InitResolve ==
    /\ rpc = "for"
    /\ ci = 1
    /\ can_hashes = <<>>
    /\ mi = 0
    /\ wi = 0
    /\ hashes = <<>>
    /\ warnings = <<>>

\* _download_packages before its first step.
InitCall ==
    /\ run = 1
    /\ firstFiles = [f \in Slots |-> Absent]
    /\ files = [f \in Slots |-> Absent]
    /\ mainpc = "mkdir"
    /\ i = 0
    /\ total = 0
    /\ completed = 0
    /\ success_count = 0
    /\ errLines = [r \in Slots |-> 0]
    /\ summary = <<>>
    /\ pc = [r \in Slots |-> "none"]
    /\ cbBy = [r \in Slots |-> "none"]
    /\ tmp = [r \in Slots |-> 0]
    /\ fstate = [r \in Slots |-> "NONE"]
    /\ fexc = [r \in Slots |-> "None"]
    /\ fcb = [r \in Slots |-> FALSE]
    /\ queue = <<>>
    /\ numThreads = 0
    /\ nGet = 0
    /\ nBlocked = 0
    /\ nDead = 0
    /\ idleSem = 0
    /\ shutdown = FALSE
    /\ hasher = [r \in Slots |-> 0]
    /\ stream = [r \in Slots |-> "none"]
    /\ fp = [r \in Slots |-> "none"]
    /\ nread = [r \in Slots |-> 0]
    /\ nhashed = [r \in Slots |-> 0]
    /\ raising = [r \in Slots |-> "None"]
    /\ runs = [r \in Slots |-> 0]
    /\ cbCalls = [r \in Slots |-> 0]

\* A call of _download_packages on its own: nothing is being resolved.
InitRun ==
    /\ candidates = <<>>
    /\ InitResolve
    /\ InitCall

\* A run starts with a list of pool entries, or with one entry of any kind,
\* or with one entry on either kind of session. One package keeps one pool
\* thread busy whatever the pool's bound is.
Init ==
    /\ \/ InitEnv(PoolCatalog, MaxPackages) /\ session = "httpx"
       \/ /\ InitEnv(FullCatalog \cup CaseCatalog, 1)
          /\ max_workers = 1
          /\ session = "httpx"
       \/ /\ InitEnv(SessionCatalog, 1)
          /\ max_workers = 1
          /\ session \in Sessions
    /\ InitRun

\* ------------------------------------------------- _download_packages
\* Variant: the directory is never created.
CallsMkdirNever(exists) == FALSE

\* Variant: mkdir is called without looking for the directory first.
CallsMkdirAlways(exists) == TRUE

\* Line 75: mkdir is called only for a destination that does not exist.
CallsMkdir(exists) == ~exists

\* Lines 75-76: if not dest.exists(): dest.mkdir(parents=True). mkdir raises
\* when it cannot create the directory or when the directory exists, and the
\* exception leaves _download_packages.
Mkdir ==
    /\ mainpc = "mkdir"
    /\ IF CallsMkdir(destExists)
       THEN IF ~destExists /\ mkdirOk
            THEN /\ destExists' = TRUE
                 /\ mainpc' = "add_task"
            ELSE /\ destExists' = destExists
                 /\ mainpc' = "raised"
       ELSE /\ destExists' = destExists
            /\ mainpc' = "add_task"
    /\ UNCHANGED <<envVars, taskVars, futVars, poolVars, tallyVars, cbVars,
                   pc, i>>

\* Lines 90-91: progress.add_task(total=len(packages)); success_count = 0.
AddTask ==
    /\ mainpc = "add_task"
    /\ total' = N
    /\ completed' = 0
    /\ success_count' = 0
    /\ mainpc' = "loop"
    /\ UNCHANGED <<envVars, destExists, taskVars, futVars, poolVars, errLines,
                   summary, cbCalls, cbVars, pc, i>>

\* Variant: a thread is spawned whenever none is idle.
SpawnsThreadUnbounded(idle, threads, bound) == idle = 0

\* ThreadPoolExecutor._adjust_thread_count: no new thread when an idle one
\* has released the semaphore, and never more than max_workers threads.
SpawnsThread(idle, threads, bound) == idle = 0 /\ threads < bound

\* Line 103: pool.submit(...) creates the future, queues the work item and
\* adjusts the thread count.
Submit ==
    /\ mainpc = "loop"
    /\ i < N
    /\ i' = i + 1
    /\ fstate' = [fstate EXCEPT ![i + 1] = "PENDING"]
    /\ pc' = [pc EXCEPT ![i + 1] = "queued"]
    /\ queue' = Append(queue, i + 1)
    /\ IF SpawnsThread(idleSem, numThreads, max_workers)
       THEN /\ numThreads' = numThreads + 1
            /\ nGet' = nGet + 1
            /\ idleSem' = idleSem
       ELSE /\ numThreads' = numThreads
            /\ nGet' = nGet
            /\ idleSem' = IF idleSem > 0 THEN idleSem - 1 ELSE 0
    /\ mainpc' = "attach"
    /\ UNCHANGED <<envVars, destExists, taskVars, fexc, fcb, nBlocked, nDead,
                   shutdown, tallyVars, cbVars>>

\* Variant: a callback attached to a finished future is only stored.
RunsInlineNever(state) == FALSE

\* Future.add_done_callback: under the future's lock, a future that is not
\* finished yet keeps the callback; for a finished one the caller runs it.
RunsInline(state) == state = "FINISHED"

\* Line 104: future.add_done_callback(progress_callback), for the future
\* just submitted.
AddDoneCallback ==
    /\ mainpc = "attach"
    /\ IF RunsInline(fstate[i])
       THEN /\ mainpc' = "callback"
            /\ pc' = [pc EXCEPT ![i] = "cb_check"]
            /\ cbBy' = [cbBy EXCEPT ![i] = "main"]
            /\ fcb' = fcb
       ELSE /\ mainpc' = "loop"
            /\ fcb' = [fcb EXCEPT ![i] = TRUE]
            /\ UNCHANGED <<pc, cbBy>>
    /\ UNCHANGED <<envVars, destExists, taskVars, fstate, fexc, poolVars,
                   tallyVars, tmp, i>>

\* Line 101, leaving the with block: ThreadPoolExecutor.__exit__ calls
\* shutdown(wait=True), which sets the flag and wakes the workers ...
Shutdown ==
    /\ mainpc = "loop"
    /\ i = N
    /\ shutdown' = TRUE
    /\ mainpc' = "join"
    /\ UNCHANGED <<envVars, destExists, taskVars, futVars, queue, numThreads,
                   nGet, nBlocked, nDead, idleSem, tallyVars, cbVars, pc, i>>

\* Variant: shutdown(wait=False) returns at once.
JoinedAtOnce(dead, threads) == TRUE

\* shutdown(wait=True) returns when every thread of the pool has exited.
Joined(dead, threads) == dead = threads

\* ... and joins every thread of the pool.
Join ==
    /\ mainpc = "join"
    /\ Joined(nDead, numThreads)
    /\ mainpc' = "echo"
    /\ UNCHANGED <<envVars, destExists, taskVars, futVars, poolVars,
                   tallyVars, cbVars, pc, i>>

\* Line 106: the summary line, with success_count as it is now.
EchoSummary ==
    /\ mainpc = "echo"
    /\ summary' = Append(summary, success_count)
    /\ mainpc' = "done"
    /\ UNCHANGED <<envVars, destExists, taskVars, futVars, poolVars, total,
                   completed, success_count, errLines, cbCalls, cbVars, pc, i>>

\* ------------------------------------------- ThreadPoolExecutor workers
\* A pool thread takes the next work item: the future goes RUNNING and
\* _download_package(project, package, dest) is called.
Take(r) ==
    /\ queue' = Tail(queue)
    /\ fstate' = [fstate EXCEPT ![r] = "RUNNING"]
    /\ runs' = [runs EXCEPT ![r] = @ + 1]
    /\ pc' = [pc EXCEPT ![r] = "new_hasher"]
    /\ UNCHANGED <<envVars, destExists, hasher, stream, fp, nread, nhashed,
                   raising, files, fexc, fcb, numThreads, nDead, idleSem,
                   shutdown, tallyVars, cbVars, mainpc, i>>

\* _worker: work_queue.get_nowait() finds an item.
WorkerPoll ==
    /\ nGet > 0
    /\ queue # <<>>
    /\ nGet' = nGet - 1
    /\ nBlocked' = nBlocked
    /\ Take(Head(queue))

\* _worker: the queue is empty; release the idle semaphore and block in get.
WorkerIdle ==
    /\ nGet > 0
    /\ queue = <<>>
    /\ nGet' = nGet - 1
    /\ nBlocked' = nBlocked + 1
    /\ idleSem' = idleSem + 1
    /\ UNCHANGED <<envVars, destExists, taskVars, futVars, queue, numThreads,
                   nDead, shutdown, tallyVars, cbVars, pc, mainpc, i>>

\* _worker: the blocking work_queue.get() returns an item.
WorkerWake ==
    /\ nBlocked > 0
    /\ queue # <<>>
    /\ nBlocked' = nBlocked - 1
    /\ nGet' = nGet
    /\ Take(Head(queue))

\* _worker: woken by shutdown with nothing left to run, the thread exits.
WorkerExit ==
    /\ nBlocked > 0
    /\ queue = <<>>
    /\ shutdown
    /\ nBlocked' = nBlocked - 1
    /\ nDead' = nDead + 1
    /\ UNCHANGED <<envVars, destExists, taskVars, futVars, queue, numThreads,
                   nGet, idleSem, shutdown, tallyVars, cbVars, pc, mainpc, i>>

\* --------------------------------------------------- _download_package
\* The with statements close the response and the file on the way out.
Closed(h) == IF h = "open" THEN "closed" ELSE h

\* An exception e leaves _download_package for package r.
Raise(r, e) ==
    /\ raising' = [raising EXCEPT ![r] = e]
    /\ stream' = [stream EXCEPT ![r] = Closed(@)]
    /\ fp' = [fp EXCEPT ![r] = Closed(@)]
    /\ pc' = [pc EXCEPT ![r] = "set_done"]

\* Variant: a name the registry does not know gets the default algorithm.
NewHasherFallback(r) ==
    /\ pc[r] = "new_hasher"
    /\ hasher' = [hasher EXCEPT ![r] =
                     NewHash(IF packages[r].hash_name \in Registry
                             THEN packages[r].hash_name ELSE "sha256")]
    /\ pc' = [pc EXCEPT ![r] = "open_stream"]
    /\ UNCHANGED <<raising, stream, fp>>
    /\ UNCHANGED <<envVars, destExists, nread, nhashed, runs, files, futVars,
                   poolVars, tallyVars, cbVars, mainpc, i>>

\* Lines 54-55: hasher = hashlib.new(hash_name); ValueError for a name the
\* registry does not know.
NewHasher(r) ==
    /\ pc[r] = "new_hasher"
    /\ IF packages[r].hash_name \in Registry
       THEN /\ hasher' = [hasher EXCEPT ![r] = NewHash(packages[r].hash_name)]
            /\ pc' = [pc EXCEPT ![r] = "open_stream"]
            /\ UNCHANGED <<raising, stream, fp>>
       ELSE /\ Raise(r, "ValueError")
            /\ hasher' = hasher
    /\ UNCHANGED <<envVars, destExists, nread, nhashed, runs, files, futVars,
                   poolVars, tallyVars, cbVars, mainpc, i>>

\* Lines 56-58: the finder's session opens the streaming GET.
OpenStream(r) ==
    /\ pc[r] = "open_stream"
    /\ IF packages[r].connect
       THEN /\ stream' = [stream EXCEPT ![r] = "open"]
            /\ pc' = [pc EXCEPT ![r] = "open_file"]
            /\ UNCHANGED <<raising, fp>>
       ELSE Raise(r, "ConnectError")
    /\ UNCHANGED <<envVars, destExists, hasher, nread, nhashed, runs, files,
                   futVars, poolVars, tallyVars, cbVars, mainpc, i>>

\* Variant: the destination file is opened for appending.
OpenFileAppend(r) ==
    /\ pc[r] = "open_file"
    /\ IF packages[r].openOk
       THEN /\ files' = [files EXCEPT ![TargetFile(packages[r])].exists = TRUE]
            /\ fp' = [fp EXCEPT ![r] = "open"]
            /\ pc' = [pc EXCEPT ![r] = "raise_for_status"]
            /\ UNCHANGED <<raising, stream>>
       ELSE /\ Raise(r, "OSError")
            /\ files' = files
    /\ UNCHANGED <<envVars, destExists, hasher, nread, nhashed, runs,
                   futVars, poolVars, tallyVars, cbVars, mainpc, i>>

\* Lines 58-60: dest.joinpath(package["file"]).open("wb") creates the file
\* or truncates it.
OpenFile(r) ==
    /\ pc[r] = "open_file"
    /\ IF packages[r].openOk
       THEN /\ files' = [files EXCEPT ![TargetFile(packages[r])] =
                             [exists |-> TRUE, data |-> <<>>]]
            /\ fp' = [fp EXCEPT ![r] = "open"]
            /\ pc' = [pc EXCEPT ![r] = "raise_for_status"]
            /\ UNCHANGED <<raising, stream>>
       ELSE /\ Raise(r, "OSError")
            /\ files' = files
    /\ UNCHANGED <<envVars, destExists, hasher, nread, nhashed, runs,
                   futVars, poolVars, tallyVars, cbVars, mainpc, i>>

\* resp.raise_for_status() raises: httpx's for every response that is not
\* 2xx, requests' for 4xx and 5xx responses.
IsErrorStatus(kind, status) ==
    IF kind = "httpx" THEN status \notin 200..299 ELSE status \in 400..599

\* Line 61: resp.raise_for_status().
RaiseForStatus(r) ==
    /\ pc[r] = "raise_for_status"
    /\ IF IsErrorStatus(session, packages[r].status)
       THEN Raise(r, "HTTPStatusError")
       ELSE /\ pc' = [pc EXCEPT ![r] = "read"]
            /\ UNCHANGED <<raising, stream, fp>>
    /\ UNCHANGED <<envVars, destExists, hasher, nread, nhashed, runs, files,
                   futVars, poolVars, tallyVars, cbVars, mainpc, i>>

\* Line 62: the for loop asks the response for its next chunk; at the end of
\* the body the loop and the with block are left.
ReadChunk(r) ==
    /\ pc[r] = "read"
    /\ IF nread[r] < Len(packages[r].body)
       THEN IF packages[r].readFault = nread[r] + 1
            THEN /\ Raise(r, "ReadError")
                 /\ nread' = nread
            ELSE /\ nread' = [nread EXCEPT ![r] = @ + 1]
                 /\ pc' = [pc EXCEPT ![r] = "update"]
                 /\ UNCHANGED <<raising, stream, fp>>
       ELSE /\ stream' = [stream EXCEPT ![r] = "closed"]
            /\ fp' = [fp EXCEPT ![r] = "closed"]
            /\ pc' = [pc EXCEPT ![r] = "verify"]
            /\ UNCHANGED <<raising, nread>>
    /\ UNCHANGED <<envVars, destExists, hasher, nhashed, runs, files,
                   futVars, poolVars, tallyVars, cbVars, mainpc, i>>

\* Variant: the chunk is hashed and the loop goes on without writing it.
HasherUpdateSkipsWrite(r) ==
    /\ pc[r] = "update"
    /\ hasher' = [hasher EXCEPT ![r] =
                     HashUpdate(packages[r].hash_name, @,
                                packages[r].body[nread[r]])]
    /\ nhashed' = [nhashed EXCEPT ![r] = @ + 1]
    /\ pc' = [pc EXCEPT ![r] = "read"]
    /\ UNCHANGED <<envVars, destExists, stream, fp, nread, raising, runs,
                   files, futVars, poolVars, tallyVars, cbVars, mainpc, i>>

\* Line 63: hasher.update(chunk).
HasherUpdate(r) ==
    /\ pc[r] = "update"
    /\ hasher' = [hasher EXCEPT ![r] =
                     HashUpdate(packages[r].hash_name, @,
                                packages[r].body[nread[r]])]
    /\ nhashed' = [nhashed EXCEPT ![r] = @ + 1]
    /\ pc' = [pc EXCEPT ![r] = "write"]
    /\ UNCHANGED <<envVars, destExists, stream, fp, nread, raising, runs,
                   files, futVars, poolVars, tallyVars, cbVars, mainpc, i>>

\* Line 64: fp.write(chunk).
WriteChunk(r) ==
    /\ pc[r] = "write"
    /\ files' = [files EXCEPT ![TargetFile(packages[r])].data =
                     Append(@, packages[r].body[nread[r]])]
    /\ pc' = [pc EXCEPT ![r] = "read"]
    /\ UNCHANGED <<envVars, destExists, hasher, stream, fp, nread, nhashed,
                   raising, runs, futVars, poolVars, tallyVars, cbVars,
                   mainpc, i>>

\* Variant: the digests are not compared.
MismatchIgnored(actual, expected) == FALSE

\* Line 65: hasher.hexdigest() != hash_value.
Mismatch(actual, expected) == actual # expected

\* Variant: a file whose digest does not match is removed before raising.
VerifyUnlinks(r) ==
    /\ pc[r] = "verify"
    /\ IF Mismatch(HexDigest(hasher[r]), packages[r].hash_value)
       THEN /\ Raise(r, MismatchError(packages[r]))
            /\ files' = [files EXCEPT ![TargetFile(packages[r])] = Absent]
       ELSE /\ pc' = [pc EXCEPT ![r] = "set_done"]
            /\ UNCHANGED <<raising, stream, fp, files>>
    /\ UNCHANGED <<envVars, destExists, hasher, nread, nhashed, runs,
                   futVars, poolVars, tallyVars, cbVars, mainpc, i>>

\* Lines 65-69: RuntimeError on a digest mismatch, else return None.
Verify(r) ==
    /\ pc[r] = "verify"
    /\ IF Mismatch(HexDigest(hasher[r]), packages[r].hash_value)
       THEN Raise(r, MismatchError(packages[r]))
       ELSE /\ pc' = [pc EXCEPT ![r] = "set_done"]
            /\ UNCHANGED <<raising, stream, fp>>
    /\ UNCHANGED <<envVars, destExists, hasher, nread, nhashed, runs, files,
                   futVars, poolVars, tallyVars, cbVars, mainpc, i>>

\* Variant: an exception of the task ends the pool thread.
WorkerDiesOnError(exc) == ~Failed(exc)

\* _worker goes on to the next work item whatever the task raised.
WorkerSurvives(exc) == TRUE

\* The pool thread that worked on a task is back in _worker's loop, or gone.
Release(exc) ==
    IF WorkerSurvives(exc)
    THEN nGet' = nGet + 1 /\ nDead' = nDead
    ELSE nGet' = nGet /\ nDead' = nDead + 1

\* _WorkItem.run: future.set_result / set_exception marks the future
\* FINISHED under its lock; the thread then runs the callbacks attached.
SetDone(r) ==
    /\ pc[r] = "set_done"
    /\ fstate' = [fstate EXCEPT ![r] = "FINISHED"]
    /\ fexc' = [fexc EXCEPT ![r] = raising[r]]
    /\ IF fcb[r]
       THEN /\ pc' = [pc EXCEPT ![r] = "cb_check"]
            /\ cbBy' = [cbBy EXCEPT ![r] = "worker"]
            /\ UNCHANGED <<nGet, nDead>>
       ELSE /\ pc' = [pc EXCEPT ![r] = "finished"]
            /\ cbBy' = cbBy
            /\ Release(raising[r])
    /\ UNCHANGED <<envVars, destExists, taskVars, fcb, queue, numThreads,
                   nBlocked, idleSem, shutdown, tallyVars, tmp, mainpc, i>>

\* --------------------------------------------------- progress_callback
\* Variant: the callback takes every future for a success.
EchoesErrorNever(exc) == FALSE

\* Line 95: if future.exception().
EchoesError(exc) == Failed(exc)

\* Lines 95-98: a failed future's error is echoed to stderr; for a result
\* `success_count += 1` starts by loading success_count.
CbCheck(r) ==
    /\ pc[r] = "cb_check"
    /\ cbCalls' = [cbCalls EXCEPT ![r] = @ + 1]
    /\ IF EchoesError(fexc[r])
       THEN /\ errLines' = [errLines EXCEPT ![r] = @ + 1]
            /\ pc' = [pc EXCEPT ![r] = "cb_advance"]
            /\ tmp' = tmp
       ELSE /\ tmp' = [tmp EXCEPT ![r] = success_count]
            /\ pc' = [pc EXCEPT ![r] = "cb_store"]
            /\ errLines' = errLines
    /\ UNCHANGED <<envVars, destExists, taskVars, futVars, poolVars, total,
                   completed, success_count, summary, cbBy, mainpc, i>>

\* Line 98: `success_count += 1` ends by storing the sum.
CbStore(r) ==
    /\ pc[r] = "cb_store"
    /\ success_count' = tmp[r] + 1
    /\ tmp' = [tmp EXCEPT ![r] = 0]
    /\ pc' = [pc EXCEPT ![r] = "cb_advance"]
    /\ UNCHANGED <<envVars, destExists, taskVars, futVars, poolVars, total,
                   completed, errLines, summary, cbCalls, cbBy, mainpc, i>>

\* Variant: the progress advances in the else branch only.
AdvanceOnSuccess(done, exc) == IF Failed(exc) THEN done ELSE done + 1

\* Variant: the progress advances in the error branch only.
AdvanceOnFailure(done, exc) == IF Failed(exc) THEN done + 1 ELSE done

\* progress.update(task, advance=1) adds one, under the Progress lock.
Advance(done, exc) == done + 1

\* Line 99: progress.update(task, advance=1); the callback returns, to the
\* for loop in the main thread and to _worker in a pool thread.
CbAdvance(r) ==
    /\ pc[r] = "cb_advance"
    /\ completed' = Advance(completed, fexc[r])
    /\ pc' = [pc EXCEPT ![r] = "finished"]
    /\ cbBy' = cbBy
    /\ IF cbBy[r] = "main"
       THEN /\ mainpc' = "loop"
            /\ UNCHANGED <<nGet, nDead>>
       ELSE /\ mainpc' = mainpc
            /\ Release(fexc[r])
    /\ UNCHANGED <<envVars, destExists, taskVars, futVars, queue, numThreads,
                   nBlocked, idleSem, shutdown, total, success_count,
                   errLines, summary, cbCalls, tmp, i>>

\* ------------------------------------------------------ specification
MainStep ==
    \/ Mkdir
    \/ AddTask
    \/ Submit
    \/ AddDoneCallback
    \/ Shutdown
    \/ Join
    \/ EchoSummary

WorkerStep ==
    \/ WorkerPoll
    \/ WorkerIdle
    \/ WorkerWake
    \/ WorkerExit

TaskStep(r) ==
    \/ NewHasher(r)
    \/ OpenStream(r)
    \/ OpenFile(r)
    \/ RaiseForStatus(r)
    \/ ReadChunk(r)
    \/ HasherUpdate(r)
    \/ WriteChunk(r)
    \/ Verify(r)
    \/ SetDone(r)

CallbackStep(r) ==
    \/ CbCheck(r)
    \/ CbStore(r)
    \/ CbAdvance(r)

Next ==
    \/ MainStep
    \/ WorkerStep
    \/ \E r \in Slots : TaskStep(r)
    \/ \E r \in Slots : CallbackStep(r)

Spec == Init /\ [][Next]_vars

\* The entries of the runs checked for progress: a download that succeeds,
\* one whose stream breaks with the file open, one that fails at once.
LiveCatalog ==
    { GoodEntry("sha256", <<1>>),
      Entry("sha256", DigestOf("sha256", <<1>>), TRUE, 200, <<1>>, 1, TRUE),
      Entry("nohash", <<"0", "0">>, TRUE, 200, <<1>>, 0, TRUE) }

FairInit == InitEnv(LiveCatalog, MaxPackages) /\ session = "httpx" /\ InitRun

\* Every runnable thread is scheduled and every step it takes returns (a
\* network read terminates), so the run goes on while a step is possible.
FairSpec == FairInit /\ [][Next]_vars /\ WF_vars(Next)

\* The end-to-end scenario: three packages into an empty destination, two
\* whose content matches the declared hash and one whose declared hash is
\* wrong, in any order.
ScenarioLists ==
    LET good == GoodEntry("sha256", <<1>>)
        bad == Entry("sha256", WrongDigest("sha256", <<1>>), TRUE, 200, <<1>>,
                     0, TRUE)
    IN {[k \in 1..3 |-> Package(IF k = b THEN bad ELSE good, k)] :
            b \in 1..3}

ScenarioInit ==
    /\ packages \in ScenarioLists
    /\ max_workers \in 1..MaxWorkers
    /\ destExists \in BOOLEAN
    /\ mkdirOk = TRUE
    /\ session = "httpx"
    /\ InitRun

ScenarioSpec == ScenarioInit /\ [][Next]_vars

\* The two lock strategies of Download.handle: lists of n records as the
\* static_urls lock file gives them, and as _get_file_hashes builds them from
\* the index; a download that verifies and one whose declared hash is wrong.
StrategyCatalog ==
    { GoodEntry("sha256", <<1>>),
      Entry("sha256", WrongDigest("sha256", <<1>>), TRUE, 200, <<1>>, 0,
            TRUE) }

StaticLists(n) ==
    {[k \in 1..n |-> StaticPackage(es[k], k)] :
        es \in [1..n -> StrategyCatalog]}

StrategyInit ==
    /\ packages \in UNION {StaticLists(n) \cup PackageLists(StrategyCatalog, n) :
                              n \in 0..MaxPackages}
    /\ max_workers \in 1..MaxWorkers
    /\ destExists \in BOOLEAN
    /\ mkdirOk = TRUE
    /\ session \in Sessions
    /\ InitRun

StrategySpec == StrategyInit /\ [][Next]_vars

\* _download_packages is called a second time with the same records and the
\* same dest, against the same server: everything local to the first call
\* is gone, the directory and its files are as the first call left them.
Rerun ==
    /\ mainpc = "done"
    /\ run = 1
    /\ run' = 2
    /\ firstFiles' = files
    /\ mainpc' = "mkdir"
    /\ i' = 0
    /\ total' = 0
    /\ completed' = 0
    /\ success_count' = 0
    /\ errLines' = [r \in Slots |-> 0]
    /\ summary' = <<>>
    /\ pc' = [r \in Slots |-> "none"]
    /\ cbBy' = [r \in Slots |-> "none"]
    /\ tmp' = [r \in Slots |-> 0]
    /\ fstate' = [r \in Slots |-> "NONE"]
    /\ fexc' = [r \in Slots |-> "None"]
    /\ fcb' = [r \in Slots |-> FALSE]
    /\ queue' = <<>>
    /\ numThreads' = 0
    /\ nGet' = 0
    /\ nBlocked' = 0
    /\ nDead' = 0
    /\ idleSem' = 0
    /\ shutdown' = FALSE
    /\ hasher' = [r \in Slots |-> 0]
    /\ stream' = [r \in Slots |-> "none"]
    /\ fp' = [r \in Slots |-> "none"]
    /\ nread' = [r \in Slots |-> 0]
    /\ nhashed' = [r \in Slots |-> 0]
    /\ raising' = [r \in Slots |-> "None"]
    /\ runs' = [r \in Slots |-> 0]
    /\ cbCalls' = [r \in Slots |-> 0]
    /\ UNCHANGED <<packages, max_workers, mkdirOk, session, destExists, files,
                   resolveVars>>

\* The records run twice: one that downloads, one that is answered 404 and
\* one whose declared hash is wrong.
RerunCatalog ==
    { GoodEntry("sha256", <<1>>),
      Entry("sha256", DigestOf("sha256", <<1>>), TRUE, 404, <<2>>, 0, TRUE),
      Entry("sha256", WrongDigest("sha256", <<1>>), TRUE, 200, <<1>>, 0,
            TRUE) }

RerunInit ==
    /\ InitEnv(RerunCatalog, MaxPackages)
    /\ session = "httpx"
    /\ InitRun

RerunNext == Next \/ Rerun

RerunSpec == RerunInit /\ [][RerunNext]_vars

\* ---------------------------------------------------- _get_file_hashes
\* A FileHash of a locked candidate: {"file": f, "hash": h}.
Locked(f, h) == [file |-> f, hash |-> h]

\* A package the finder yields: its link's filename and URL.
LinkOf(host, f) == [filename |-> f, url |-> [host |-> host, filename |-> f]]

HashValues == {"sha256:aa", "sha256:bb"}

\* Lock entries of one candidate: two file names, each with either hash, so
\* that entries may repeat a file name or be equal.
LockedEntries == {Locked(f, h) : f \in {1, 2}, h \in HashValues}

\* What the repository may hold for that candidate: file 1 on two sources,
\* file 2, and a file 3 the lock does not know.
Links ==
    {LinkOf("files", 1), LinkOf("mirror", 1), LinkOf("files", 2),
     LinkOf("files", 3)}

SeqsUpTo(S, n) == UNION {[1..k -> S] : k \in 0..n}

\* A candidate: candidate.req.is_named, candidate.hashes, and the packages
\* finder.find_matches yields for it, in order.
Candidate(named, hs, ms) == [named |-> named, hashes |-> hs, matches |-> ms]

\* Another candidate, with a file name of its own: found, not found, not
\* named.
OtherCandidates ==
    { Candidate(TRUE, <<Locked(4, "sha256:aa")>>, <<LinkOf("files", 4)>>),
      Candidate(TRUE, <<Locked(4, "sha256:aa")>>, <<>>),
      Candidate(FALSE, <<Locked(4, "sha256:aa")>>, <<LinkOf("files", 4)>>) }

\* The candidate g alone, before another candidate and after one.
CandidateLists(g) ==
    {<<g>>} \cup {<<g, o>> : o \in OtherCandidates}
            \cup {<<o, g>> : o \in OtherCandidates}

\* next((k for k, h in enumerate(hs) if h["file"] == filename), None), as an
\* index, 0 for None.
FirstWithFile(hs, filename) ==
    IF \E k \in 1..Len(hs) : hs[k].file = filename
    THEN CHOOSE k \in 1..Len(hs) :
             /\ hs[k].file = filename
             /\ \A j \in 1..(k - 1) : hs[j].file # filename
    ELSE 0

\* Variant: the matched entry stays in the list.
RemoveNothing(hs, h) == hs

\* list.remove(h): the list without its first item equal to h.
Remove(hs, h) ==
    LET k == CHOOSE n \in 1..Len(hs) :
                 hs[n] = h /\ \A j \in 1..(n - 1) : hs[j] # h
    IN SubSeq(hs, 1, k - 1) \o SubSeq(hs, k + 1, Len(hs))

\* Everything but the state of _get_file_hashes.
downloadVars ==
    <<packages, max_workers, destExists, mkdirOk, session, run, firstFiles,
      files, mainpc, i, total, completed, success_count, errLines, summary,
      pc, cbBy, tmp, fstate, fexc, fcb, queue, numThreads, nGet, nBlocked,
      nDead, idleSem, shutdown, hasher, stream, fp, nread, nhashed, raising,
      runs, cbCalls>>

\* Lines 223-226: the outer for loop takes the next candidate and copies its
\* hashes; a candidate without hashes or not named is skipped.
ForCandidate ==
    /\ rpc = "for"
    /\ ci <= Len(candidates)
    /\ can_hashes' = candidates[ci].hashes
    /\ IF candidates[ci].hashes = <<>> \/ ~candidates[ci].named
       THEN /\ ci' = ci + 1
            /\ UNCHANGED <<rpc, mi>>
       ELSE /\ rpc' = "match"
            /\ mi' = 0
            /\ ci' = ci
    /\ UNCHANGED <<candidates, wi, hashes, warnings, downloadVars>>

\* Lines 236-254: the inner for loop takes the next package of the finder;
\* the first remaining entry of its file name, if any, leaves can_hashes
\* and joins hashes with the link's URL.
FindMatch ==
    /\ rpc = "match"
    /\ IF mi < Len(candidates[ci].matches)
       THEN LET package == candidates[ci].matches[mi + 1]
                filename == package.filename
                k == FirstWithFile(can_hashes, filename)
            IN /\ mi' = mi + 1
               /\ IF k # 0
                  THEN /\ can_hashes' = Remove(can_hashes, can_hashes[k])
                       /\ hashes' = Append(hashes,
                                           [url |-> package.url,
                                            file |-> filename,
                                            hash |-> can_hashes[k].hash])
                  ELSE UNCHANGED <<can_hashes, hashes>>
               /\ UNCHANGED <<rpc, wi>>
       ELSE /\ rpc' = "warn"
            /\ wi' = 0
            /\ UNCHANGED <<mi, can_hashes, hashes>>
    /\ UNCHANGED <<candidates, ci, warnings, downloadVars>>

\* Lines 256-260: one warning for every entry left in can_hashes, then on to
\* the next candidate.
Warn ==
    /\ rpc = "warn"
    /\ IF wi < Len(can_hashes)
       THEN /\ warnings' = Append(warnings, can_hashes[wi + 1].file)
            /\ wi' = wi + 1
            /\ UNCHANGED <<rpc, ci>>
       ELSE /\ rpc' = "for"
            /\ ci' = ci + 1
            /\ UNCHANGED <<warnings, wi>>
    /\ UNCHANGED <<candidates, can_hashes, mi, hashes, downloadVars>>

\* Line 261: return hashes.
Return ==
    /\ rpc = "for"
    /\ ci > Len(candidates)
    /\ rpc' = "return"
    /\ UNCHANGED <<candidates, ci, can_hashes, mi, wi, hashes, warnings,
                   downloadVars>>

ResolveInit ==
    /\ \E nm \in BOOLEAN, hs \in SeqsUpTo(LockedEntries, MaxPackages),
          ms \in SeqsUpTo(Links, MaxPackages) :
           candidates \in CandidateLists(Candidate(nm, hs, ms))
    /\ InitResolve
    /\ packages = <<>>
    /\ max_workers = 1
    /\ destExists = FALSE
    /\ mkdirOk = TRUE
    /\ session = "httpx"
    /\ InitCall

ResolveNext ==
    \/ ForCandidate
    \/ FindMatch
    \/ Warn
    \/ Return

ResolveSpec == ResolveInit /\ [][ResolveNext]_vars

\* ------------------------------------------------------------ outcomes
Done == mainpc = "done"

Records == 1..N

\* The DownloadOutcome of package r, once its future is finished.
Outcome(r) ==
    IF fstate[r] # "FINISHED" THEN "NoOutcome"
    ELSE IF Failed(fexc[r]) THEN "Failure"
    ELSE "Success"

Successes == {r \in Records : Outcome(r) = "Success"}
Failures == {r \in Records : Outcome(r) = "Failure"}

\* A download of p on its own succeeds: the algorithm is registered, the
\* server is reached and answers with success, the file can be opened, the
\* whole body arrives and its digest is the declared one.
SucceedsAlone(p) ==
    /\ p.hash_name \in Registry
    /\ p.connect
    /\ p.openOk
    /\ ~IsErrorStatus(session, p.status)
    /\ p.readFault = 0
    /\ DigestOf(p.hash_name, p.body) = p.hash_value

\* -------------------------------------------------------------- claims
\* C1: a failing task never cancels, blocks or changes the outcome of another
\* task: when _download_packages is done every future is finished, and every
\* package whose download succeeds on its own has outcome Success.
C1_FailureIsolation ==
    Done => \A r \in Records :
                /\ fstate[r] = "FINISHED"
                /\ SucceedsAlone(packages[r]) => Outcome(r) = "Success"

\* A finished run in which a task failed before a later task succeeded.
C1_Witness ==
    /\ Done
    /\ \E r, q \in Records :
        r < q /\ Outcome(r) = "Failure" /\ Outcome(q) = "Success"

\* C2: N packages on K workers give exactly N outcomes: no task runs twice,
\* no callback is entered twice, and at the end every package's task has run
\* once and its callback has been called once.
C2_ExactlyOnce ==
    /\ \A r \in Slots : runs[r] <= 1 /\ cbCalls[r] <= 1
    /\ \A r \in Slots \ Records : runs[r] = 0 /\ cbCalls[r] = 0
    /\ Done => \A r \in Records :
                   runs[r] = 1 /\ cbCalls[r] = 1 /\ Outcome(r) # "NoOutcome"

\* A finished run with fewer workers than packages, where one callback ran
\* in the main thread (future finished before it was attached) and one in a
\* pool thread.
C2_Witness ==
    /\ Done
    /\ max_workers < N
    /\ \E r, q \in Records : cbBy[r] = "main" /\ cbBy[q] = "worker"

\* C3: when _download_packages finishes, completed equals total, which is
\* len(packages), whatever the mix of successes and failures.
C3_CompletedIsTotal == Done => completed = total /\ total = N

\* A finished run with a success and a failure.
C3_Witness == Done /\ Successes # {} /\ Failures # {}

\* Callbacks that have stored success_count and not yet advanced the
\* progress: between the two statements of progress_callback.
MidCallback == {r \in Records : pc[r] = "cb_advance" /\ ~Failed(fexc[r])}

\* C4, as stated: 0 <= succeeded <= completed <= total in every state.
C4_CountersOrdered ==
    /\ 0 <= success_count
    /\ success_count <= completed
    /\ completed <= total

\* C4, amended: 0 <= succeeded, completed <= total and succeeded <= total in
\* every state, and succeeded exceeds completed by at most the number of
\* callbacks between `success_count += 1` and progress.update.
C4_CountersOrderedAmended ==
    /\ 0 <= success_count
    /\ 0 <= completed
    /\ completed <= total
    /\ success_count <= completed + Cardinality(MidCallback)
    /\ success_count <= total
    /\ MidCallback = {} => success_count <= completed

\* A successful callback between its two statements, succeeded ahead of
\* completed.
C4_Witness == MidCallback # {} /\ success_count = completed + 1

\* C5: the count in the summary line is the number of packages whose task
\* ended in Success, however the callbacks interleave.
C5_SummaryCountsSuccesses ==
    Done => summary = <<Cardinality(Successes)>>

\* What was written to dest for package r.
FileOf(r) == files[TargetFile(packages[r])]

\* C6: a package that downloads on its own ends in Success with exactly the
\* response body in its file, whose digest is the declared one; and no task
\* ends in Success with a file whose digest differs from the declared one.
C6_SuccessIffVerified ==
    \A r \in Records :
        /\ (SucceedsAlone(packages[r]) /\ Outcome(r) # "NoOutcome") =>
               /\ Outcome(r) = "Success"
               /\ FileOf(r) = [exists |-> TRUE, data |-> packages[r].body]
        /\ Outcome(r) = "Success" =>
               /\ FileOf(r).exists
               /\ DigestOf(packages[r].hash_name, FileOf(r).data)
                      = packages[r].hash_value

\* A task that ended in Success after streaming a body of two chunks.
C6_Witness ==
    \E r \in Records :
        /\ Outcome(r) = "Success"
        /\ Len(packages[r].body) >= 2
        /\ FileOf(r).data = packages[r].body

\* C7: a failed future's callback echoes exactly one error line and a
\* successful one none; after the run the error lines number total minus the
\* successes.
C7_OneDiagnosticPerFailure ==
    /\ \A r \in Slots : errLines[r] <= 1
    /\ \A r \in Slots : errLines[r] = 1 => Outcome(r) = "Failure"
    /\ Done => /\ \A r \in Failures : errLines[r] = 1
               /\ Cardinality({r \in Slots : errLines[r] = 1})
                      = total - Cardinality(Successes)

\* A finished run with two failures and their two error lines.
C7_Witness ==
    /\ Done
    /\ Cardinality(Failures) >= 2
    /\ \A r \in Failures : errLines[r] = 1

\* C8: with the destination directory in place _download_packages does not
\* raise: an exception of a task ends up in its future and nowhere else, and
\* the run only stops when the function has returned (or mkdir has failed).
C8_NoErrorPropagates ==
    /\ destExists => mainpc # "raised"
    /\ \A r \in Records :
           Outcome(r) # "NoOutcome" => fexc[r] = raising[r]
    /\ ~ENABLED Next => mainpc \in {"done", "raised"}

\* A run that returned although every one of its packages failed.
C8_Witness == Done /\ N >= 2 /\ Failures = Records

\* The summary is out: nothing is queued, running or in a callback.
C9_Quiet ==
    /\ Len(summary) <= 1
    /\ summary # <<>> =>
           /\ queue = <<>>
           /\ nDead = numThreads
           /\ \A r \in Records :
                  /\ pc[r] = "finished"
                  /\ cbCalls[r] = 1
                  /\ stream[r] # "open"
                  /\ fp[r] # "open"
           /\ completed = total

\* C9: the summary line is echoed once, after every task and every callback
\* has finished, and a run that got past mkdir always gets there.
C9_BlocksUntilTallied ==
    /\ []C9_Quiet
    /\ (mainpc = "add_task") ~> (Len(summary) = 1)

\* The summary is out after a run with more packages than workers.
C9_Witness == summary # <<>> /\ N >= 2 /\ max_workers < N

\* Tasks inside _download_package.
Executing ==
    {r \in Records : pc[r] \in {"new_hasher", "open_stream", "open_file",
                                "raise_for_status", "read", "update",
                                "write", "verify", "set_done"}}

\* C10: at most max_workers tasks execute at once, and at most max_workers
\* response streams and destination files are open.
C10_BoundedConcurrency ==
    /\ numThreads <= max_workers
    /\ Cardinality(Executing) <= max_workers
    /\ Cardinality({r \in Records : stream[r] = "open" \/ fp[r] = "open"})
           <= max_workers

\* The pool is full, with streams and files open, while a task is queued.
C10_Witness ==
    /\ queue # <<>>
    /\ Cardinality({r \in Records : stream[r] = "open" /\ fp[r] = "open"})
           = max_workers


\* Nothing of the pool, the tasks or the tally has happened.
NothingScheduled ==
    /\ i = 0
    /\ queue = <<>>
    /\ numThreads = 0
    /\ \A r \in Slots :
           fstate[r] = "NONE" /\ runs[r] = 0 /\ cbCalls[r] = 0
               /\ errLines[r] = 0
    /\ completed = 0
    /\ summary = <<>>

\* C11: the destination directory exists before any task is scheduled, and a
\* failing mkdir ends the operation with nothing scheduled, nothing tallied
\* and no summary.
C11_DirectoryFirst ==
    /\ ~NothingScheduled => destExists
    /\ mainpc \in {"add_task", "loop", "attach", "callback", "join", "echo",
                   "done"} => destExists
    /\ (~destExists /\ ~mkdirOk) => mainpc \in {"mkdir", "raised"}
    /\ mainpc = "raised" => NothingScheduled /\ ~ENABLED Next

\* mkdir failed for a run that had packages to download.
C11_Witness == mainpc = "raised" /\ ~destExists /\ N >= 1


\* The directory entries under dest.
DirEntries == {f \in Slots : files[f].exists}

\* The error lines echoed to stderr.
ErrorLines == {r \in Slots : errLines[r] >= 1}

\* C12: in the end-to-end scenario a full run leaves exactly 2 directory
\* entries, echoes exactly 1 error line and reports 2 packages downloaded.
C12_EndToEnd ==
    Done =>
        /\ Cardinality(DirEntries) = 2
        /\ Cardinality(ErrorLines) = 1
        /\ \A r \in ErrorLines : errLines[r] = 1
        /\ summary = <<2>>


\* C13: a task that finds a digest mismatch after streaming the whole body
\* ends in Failure and leaves the file it wrote in place, with the
\* downloaded bytes, from then on.
C13_MismatchKeepsFile ==
    \A r \in Records :
        (raising[r] = "RuntimeError" \/ fexc[r] = "RuntimeError") =>
            /\ Outcome(r) # "Success"
            /\ nread[r] = Len(packages[r].body)
            /\ FileOf(r) = [exists |-> TRUE, data |-> packages[r].body]

\* A finished run with a mismatched package whose two chunks are on disk.
C13_Witness ==
    /\ Done
    /\ \E r \in Records :
        /\ fexc[r] = "RuntimeError"
        /\ Len(packages[r].body) >= 2
        /\ FileOf(r).data = packages[r].body


\* The declared digest of p is the computed one in another letter case, and
\* nothing else stands in the way of the download.
DiffersOnlyInCase(p) ==
    /\ p.hash_name \in Registry
    /\ p.connect
    /\ p.openOk
    /\ ~IsErrorStatus(session, p.status)
    /\ p.readFault = 0
    /\ p.hash_value # DigestOf(p.hash_name, p.body)
    /\ ToLower(p.hash_value) = DigestOf(p.hash_name, p.body)

\* C14: the final comparison is case-insensitive: a package whose declared
\* hex digest differs from the computed one only in letter case ends in
\* Success.
C14_CaseInsensitive ==
    \A r \in Records :
        (DiffersOnlyInCase(packages[r]) /\ Outcome(r) # "NoOutcome") =>
            Outcome(r) = "Success"


UnknownAlgorithm(r) == packages[r].hash_name \notin Registry

\* C15: a package whose hash names an algorithm hashlib does not know ends in
\* Failure with a ValueError before anything is fetched or written; the main
\* thread goes on; and when the run is done that package has one error line,
\* is counted in completed and not in the summary's successes, and every
\* other package has the outcome it has on its own.
C15_UnknownAlgorithm ==
    /\ mainpc = "raised" => i = 0
    /\ \A r \in Records : UnknownAlgorithm(r) =>
        /\ Outcome(r) # "Success"
        /\ fstate[r] = "FINISHED" => fexc[r] = "ValueError"
        /\ stream[r] = "none" /\ fp[r] = "none" /\ ~FileOf(r).exists
        /\ Done =>
            /\ errLines[r] = 1 /\ cbCalls[r] = 1
            /\ completed = N /\ total = N
            /\ \E k \in 0..Cardinality(Successes) : summary = <<k>>
            /\ \A q \in Records \ {r} :
                   Outcome(q) = IF SucceedsAlone(packages[q])
                                THEN "Success" ELSE "Failure"

\* A finished run of two packages: one of an unknown algorithm, which
\* failed, and one that succeeded.
C15_Witness ==
    /\ Done
    /\ \E r, q \in Records :
        /\ UnknownAlgorithm(r) /\ Outcome(r) = "Failure" /\ errLines[r] = 1
        /\ Outcome(q) = "Success"


\* The server answered the GET of package r with a status that is not 2xx.
NotSuccessStatus(r) == packages[r].connect /\ packages[r].status \notin 200..299

\* C18: when the server answers with a status that is not 2xx the task ends
\* in Failure and no chunk of the response body is hashed or written.
C18_StatusBeforeBody ==
    \A r \in Records : NotSuccessStatus(r) =>
        /\ nread[r] = 0 /\ nhashed[r] = 0
        /\ FileOf(r).data = <<>>
        /\ Outcome(r) # "Success"


\* The first n chunks of a body.
Prefix(body, n) == SubSeq(body, 1, n)

\* Package r's task is between hashlib.new and its return.
Streaming(r) ==
    pc[r] \in {"open_stream", "open_file", "raise_for_status", "read",
               "update", "write", "verify"}

\* C19: each chunk is fed to the digest and then appended to the file before
\* the next chunk is read: the file holds a prefix of the chunks hashed, at
\* most one chunk behind, the digest is that of the chunks hashed, and both
\* have caught up whenever a chunk is asked for; a task ends in Success only
\* after the whole body was read, hashed and written and the digests
\* compared equal, never after a read error, which leaves a partial file.
C19_HashThenWrite ==
    \A r \in Records :
        LET p == packages[r]
            d == FileOf(r).data
        IN /\ d = Prefix(p.body, Len(d))
           /\ Len(d) <= nhashed[r] /\ nhashed[r] <= Len(d) + 1
           /\ nhashed[r] <= nread[r] /\ nread[r] <= nhashed[r] + 1
           /\ pc[r] = "read" => Len(d) = nread[r] /\ nhashed[r] = nread[r]
           /\ pc[r] = "update" => Len(d) = nhashed[r] /\ nread[r] = nhashed[r] + 1
           /\ pc[r] = "write" => Len(d) + 1 = nhashed[r] /\ nread[r] = nhashed[r]
           /\ (Streaming(r) /\ p.hash_name \in Registry) =>
                  hasher[r] = HashOf(p.hash_name, NewHash(p.hash_name),
                                     Prefix(p.body, nhashed[r]))
           /\ Outcome(r) = "Success" =>
                  /\ nread[r] = Len(p.body) /\ d = p.body
                  /\ stream[r] = "closed" /\ fp[r] = "closed"
                  /\ DigestOf(p.hash_name, p.body) = p.hash_value
           /\ (raising[r] = "ReadError" \/ fexc[r] = "ReadError") =>
                  /\ Outcome(r) # "Success"
                  /\ FileOf(r).exists /\ Len(d) = p.readFault - 1

\* Mid-stream: the second chunk is hashed and not yet written.
C19_Witness ==
    \E r \in Records :
        /\ pc[r] = "write"
        /\ nhashed[r] = 2
        /\ Len(FileOf(r).data) = 1


\* The records of the run came from a static_urls lock file.
FromStaticUrls == \A r \in Records : ~HasFileKey(packages[r])

\* C16: after a run into an empty destination in which every record ended in
\* Success, the names under dest are exactly the records' file names (the
\* k-th record's file is named k), whether the records carry "file" or only
\* the URL it is the last segment of.
C16_ExactFileSet ==
    (Done /\ \A r \in Records : Outcome(r) = "Success") =>
        /\ DirEntries = Records
        /\ \A r \in Records :
               files[r] = [exists |-> TRUE, data |-> packages[r].body]

\* A finished run of two static_urls records, both downloaded.
C16_Witness ==
    /\ Done
    /\ N = 2
    /\ FromStaticUrls
    /\ \A r \in Records : Outcome(r) = "Success"
    /\ DirEntries = {1, 2}


\* C17: a second call with the same records and the same dest does not
\* raise: the existing directory is not created again and an existing file
\* is opened and truncated, not refused; a record that downloads on its own
\* succeeds again; and with the server's content unchanged the files after
\* the second call are those after the first.
C17_RerunOverwrites ==
    run = 2 =>
        /\ destExists
        /\ mainpc # "raised"
        /\ \A r \in Records :
            /\ packages[r].openOk => raising[r] # "OSError" /\ fexc[r] # "OSError"
            /\ pc[r] = "raise_for_status" => FileOf(r) = [exists |-> TRUE, data |-> <<>>]
            /\ (SucceedsAlone(packages[r]) /\ Outcome(r) # "NoOutcome") =>
                   Outcome(r) = "Success"
        /\ Done => files = firstFiles

\* The second call is done over two files the first call had left, one of
\* them with a body in it.
C17_Witness ==
    /\ run = 2
    /\ Done
    /\ N = 2
    /\ \A r \in Records : firstFiles[r].exists
    /\ \E r \in Records : firstFiles[r].data # <<>> /\ Outcome(r) = "Success"


\* How many items of the sequence s are for the file f, and how many are
\* for the file and with the hash of e.
CountFile(s, f) == Cardinality({k \in 1..Len(s) : s[k].file = f})

CountSame(s, e) ==
    Cardinality({k \in 1..Len(s) : s[k].file = e.file /\ s[k].hash = e.hash})

\* The lock entries _get_file_hashes has to place: those of the named
\* candidates, in the order of the candidates.
RECURSIVE EntriesOf(_)
EntriesOf(cs) ==
    IF cs = <<>> THEN <<>>
    ELSE (IF Head(cs).named THEN Head(cs).hashes ELSE <<>>)
             \o EntriesOf(Tail(cs))

\* The links the finder yields over the whole run.
RECURSIVE MatchesOf(_)
MatchesOf(cs) ==
    IF cs = <<>> THEN <<>>
    ELSE (IF Head(cs).named /\ Head(cs).hashes # <<>>
          THEN Head(cs).matches ELSE <<>>) \o MatchesOf(Tail(cs))

AllFileNames == {e.file : e \in {EntriesOf(candidates)[k] :
                                    k \in 1..Len(EntriesOf(candidates))}}

\* C20: every lock entry of a named candidate is placed exactly once: while
\* _get_file_hashes runs no file name is downloaded and warned more often
\* than it is locked, and on return, for every file name, the entries
\* locked are as many as the records in the download set plus the warnings;
\* every record carries the hash of a lock entry of its file, no more often
\* than that entry is locked, and the URL of a link of that file name.
C20_EachEntryPlacedOnce ==
    LET entries == EntriesOf(candidates)
        links == MatchesOf(candidates)
        Warned(f) == Cardinality({k \in 1..Len(warnings) : warnings[k] = f})
    IN /\ \A f \in AllFileNames :
              /\ CountFile(hashes, f) + Warned(f) <= CountFile(entries, f)
              /\ rpc = "return" =>
                     CountFile(hashes, f) + Warned(f) = CountFile(entries, f)
       /\ \A k \in 1..Len(warnings) : warnings[k] \in AllFileNames
       /\ \A k \in 1..Len(hashes) :
              /\ CountSame(entries, hashes[k]) >= 1
              /\ CountSame(hashes, hashes[k]) <= CountSame(entries, hashes[k])
              /\ \E j \in 1..Len(links) :
                     /\ links[j].filename = hashes[k].file
                     /\ links[j].url = hashes[k].url

\* _get_file_hashes has returned after a candidate with two entries of one
\* file name met two links of that name and one entry of another file met
\* none: two records, in fact, and one warning.
C20_Witness ==
    /\ rpc = "return"
    /\ Len(hashes) >= 1
    /\ Len(warnings) >= 1
    /\ \E c \in 1..Len(candidates) :
        /\ candidates[c].named
        /\ Len(candidates[c].hashes) = 2
        /\ Len(candidates[c].matches) = 2
        /\ candidates[c].matches[1].filename = candidates[c].matches[2].filename
        /\ candidates[c].hashes[1].file # candidates[c].hashes[2].file

====
